---- MODULE Spec2Model ----
(***************************************************************************)
(* Model of the asn1-rs typed conformances Boolean / bool, Null / (),      *)
(* OctetString / &[u8] and UtcTime: the BER decode (TryFrom<Any>), the DER *)
(* constraint check (CheckDerConstraints) and the DER encoder (ToDer).     *)
(* Bytes are integers 0..255, byte strings are sequences of bytes.         *)
(***************************************************************************)
EXTENDS Integers, Sequences, FiniteSets, TLC

\* pc      where the call sequence stands: "value" (a value to encode),
\*         "written" (to_der done), "any" (an Any to decode), "unparsed"
\*         (the written bytes are no TLV), "raw" (bytes for from_bytes)
\* typ     the type T whose impls are called
\* val     the value being encoded; origin: built with new() or decoded
\* wire    the bytes the writer received; sz: the count to_der returned;
\*         derlen: what to_der_len returned
\* any     the Any given to try_from / check_constraints; rem: input left
\*         after it
\* raw     the bytes given to UtcTime::from_bytes
\* res     what try_from / from_bytes returned; chk: what check_constraints
\*         returned
VARIABLES pc, typ, val, origin, wire, sz, derlen, any, rem, raw, res, chk

vars == <<pc, typ, val, origin, wire, sz, derlen, any, rem, raw, res, chk>>

(***************************************************************************)
(* Bounds of the model.                                                    *)
(***************************************************************************)
\* Every byte string over ByteSamples of length 0..MaxOctets is an input.
MaxOctets == 2

ByteSamples == {0, 1, 255}

\* Content lengths around the short/long form border of the DER length.
LongLens == {127, 128, 255, 256, 65536}

\* Years handed to UtcTime::new (the field is a u32).
YearSamples == {0, 7, 99, 100, 2021, 2147483647}

(***************************************************************************)
(* Tags, characters                                                        *)
(***************************************************************************)
TagBoolean == 1
TagInteger == 2
TagOctetString == 4
TagNull == 5
TagUtcTime == 23

ChZero == 48
ChNine == 57
ChZ == 90
ChPlus == 43
ChMinus == 45

Types == {"Boolean", "bool", "Null", "unit", "OctetString", "slice", "UtcTime"}

\* impl Tagged for T: const TAG
TAG(T) ==
  CASE T \in {"Boolean", "bool"} -> TagBoolean
    [] T \in {"Null", "unit"} -> TagNull
    [] T \in {"OctetString", "slice"} -> TagOctetString
    [] T = "UtcTime" -> TagUtcTime

(***************************************************************************)
(* Results                                                                 *)
(***************************************************************************)
NoVal == [t |-> "none"]
None == [kind |-> "None", err |-> "", val |-> NoVal]
Ok(v) == [kind |-> "Ok", err |-> "", val |-> v]
Err(e) == [kind |-> "Err", err |-> e, val |-> NoVal]
\* an out-of-bounds slice index aborts the call
Panic == [kind |-> "Panic", err |-> "index out of bounds", val |-> NoVal]
Unit == [t |-> "unit"]

(***************************************************************************)
(* Length, Header, Any                                                     *)
(***************************************************************************)
Definite(n) == [kind |-> "Definite", n |-> n]
Indefinite == [kind |-> "Indefinite", n |-> 0]

\* Header::new(class, constructed, tag, length)
Header_new(class, constructed, tag, length) ==
  [class |-> class, constructed |-> constructed, tag |-> tag, length |-> length]

Any_new(header, data, owned) == [header |-> header, data |-> data, owned |-> owned]

NoAny == Any_new(Header_new(0, 0, 0, Indefinite), <<>>, FALSE)

\* Tag::assert_eq
assert_eq(tag, expected) == IF tag = expected THEN Ok(Unit) ELSE Err("UnexpectedTag")

\* Header::assert_primitive
assert_primitive(header) ==
  IF header.constructed = 0 THEN Ok(Unit) ELSE Err("ConstructUnexpected")

\* Length::is_null
is_null(length) == length = Definite(0)

\* Any::into_cow: the content, still borrowed or owned
into_cow(a) == [t |-> "OctetString", data |-> a.data, owned |-> a.owned]

RECURSIVE BEBytes(_)
\* the big-endian bytes of n, no leading zero byte
BEBytes(n) == IF n = 0 THEN <<>> ELSE BEBytes(n \div 256) \o <<n % 256>>

RECURSIVE NumBytes(_)
\* how many bytes n takes
NumBytes(n) == IF n = 0 THEN 0 ELSE 1 + NumBytes(n \div 256)

\* Length::to_der_len for a definite length
Length_to_der_len(n) == IF n <= 127 THEN 1 ELSE 1 + NumBytes(n)

\* the DER length octets of Definite(n)
Length_to_der(n) ==
  IF n <= 127 THEN <<n>> ELSE <<128 + Len(BEBytes(n))>> \o BEBytes(n)

\* Header::to_der_len: one tag octet plus the length octets
Header_to_der_len(header) == 1 + Length_to_der_len(header.length.n)

\* Header::to_der: tag octet (class | constructed | tag number), then the length
Header_to_der(header) ==
  <<header.class * 64 + header.constructed * 32 + header.tag>>
    \o Length_to_der(header.length.n)

RECURSIVE BEValue(_)
BEValue(bs) ==
  IF bs = <<>> THEN 0 ELSE BEValue(SubSeq(bs, 1, Len(bs) - 1)) * 256 + bs[Len(bs)]

\* Parsing one TLV into an Any borrowing from the input
Any_from_der(bs) ==
  IF Len(bs) < 2 THEN [kind |-> "Err", any |-> NoAny, rem |-> <<>>]
  ELSE
    LET t == bs[1]
        l == bs[2]
        cnt == IF l > 128 THEN l - 128 ELSE 0
        hl == 2 + cnt
        bad == l = 255 \/ Len(bs) < hl
        n == IF l < 128 THEN l
             ELSE IF bad \/ l = 128 THEN 0
             ELSE BEValue(SubSeq(bs, 3, hl))
        length == IF l = 128 THEN Indefinite ELSE Definite(n)
        header == Header_new(t \div 64, (t \div 32) % 2, t % 32, length)
    IN IF bad \/ l = 128 \/ Len(bs) < hl + n
         THEN [kind |-> "Err", any |-> NoAny, rem |-> <<>>]
         ELSE [kind |-> "Ok",
               any |-> Any_new(header, SubSeq(bs, hl + 1, hl + n), FALSE),
               rem |-> SubSeq(bs, hl + n + 1, Len(bs))]

(***************************************************************************)
(* Boolean, bool                                                           *)
(***************************************************************************)
\* Boolean::new
Boolean_new(value) == [t |-> "Boolean", value |-> value]

\* Boolean::bool
Boolean_bool(b) == b.value # 0

\* impl TryFrom<Any> for Boolean
Boolean_try_from(a) ==
  IF assert_eq(a.header.tag, TAG("Boolean")).kind # "Ok"
    THEN assert_eq(a.header.tag, TAG("Boolean"))
  ELSE IF a.header.length # Definite(1) THEN Err("InvalidLength")
  ELSE IF Len(a.data) < 1 THEN Panic
  ELSE Ok(Boolean_new(a.data[1]))

\* mutant: the DER check takes 0x01 for the canonical true
Boolean_check_constraints_mut(a) ==
  IF Len(a.data) < 1 THEN Panic
  ELSE IF ~(a.data[1] = 0 \/ a.data[1] = 1) THEN Err("DerConstraintFailed")
  ELSE Ok(Unit)

\* impl CheckDerConstraints for Boolean
Boolean_check_constraints(a) ==
  IF Len(a.data) < 1 THEN Panic
  ELSE IF ~(a.data[1] = 0 \/ a.data[1] = 255) THEN Err("DerConstraintFailed")
  ELSE Ok(Unit)

\* impl ToDer for Boolean: to_der_len
Boolean_to_der_len(v) == 3

\* mutant: true is written as 0x01
Boolean_to_der_mut(v) ==
  LET b == IF v.value # 0 THEN 1 ELSE 0
      buf == <<TAG("Boolean"), 1, b>>
  IN [bytes |-> buf, n |-> Len(buf)]

\* impl ToDer for Boolean: to_der
Boolean_to_der(v) ==
  LET b == IF v.value # 0 THEN 255 ELSE 0
      buf == <<TAG("Boolean"), 1, b>>
  IN [bytes |-> buf, n |-> Len(buf)]

\* impl ToDer for Boolean: to_der_raw
Boolean_to_der_raw(v) ==
  LET buf == <<TAG("Boolean"), 1, v.value>>
  IN [bytes |-> buf, n |-> Len(buf)]

\* impl TryFrom<Any> for bool
bool_try_from(a) ==
  IF assert_eq(a.header.tag, TAG("bool")).kind # "Ok"
    THEN assert_eq(a.header.tag, TAG("bool"))
  ELSE IF Boolean_try_from(a).kind # "Ok" THEN Boolean_try_from(a)
  ELSE Ok([t |-> "bool", b |-> Boolean_bool(Boolean_try_from(a).val)])

\* impl CheckDerConstraints for bool
bool_check_constraints(a) ==
  IF Len(a.data) < 1 THEN Panic
  ELSE IF ~(a.data[1] = 0 \/ a.data[1] = 255) THEN Err("DerConstraintFailed")
  ELSE Ok(Unit)

\* impl ToDer for bool: to_der_len
bool_to_der_len(v) == 3

\* impl ToDer for bool: to_der
bool_to_der(v) ==
  LET b == IF v.b THEN 255 ELSE 0
      buf == <<TAG("bool"), 1, b>>
  IN [bytes |-> buf, n |-> Len(buf)]

(***************************************************************************)
(* Null, ()                                                                *)
(***************************************************************************)
\* Null::new
Null_new == [t |-> "Null"]

\* impl TryFrom<Any> for Null
Null_try_from(a) ==
  IF assert_eq(a.header.tag, TAG("Null")).kind # "Ok"
    THEN assert_eq(a.header.tag, TAG("Null"))
  ELSE IF ~is_null(a.header.length) THEN Err("InvalidLength")
  ELSE Ok(Null_new)

\* impl CheckDerConstraints for Null
Null_check_constraints(a) == Ok(Unit)

\* impl ToDer for Null: to_der_len
Null_to_der_len(v) == 2

\* impl ToDer for Null: write_der_header
Null_write_der_header(v) == [bytes |-> <<5, 0>>, n |-> 2]

\* impl ToDer for Null: write_der_content
Null_write_der_content(v) == [bytes |-> <<>>, n |-> 0]

\* mutant: the primitive check is left out
unit_try_from_mut(a) ==
  IF assert_eq(a.header.tag, TAG("unit")).kind # "Ok"
    THEN assert_eq(a.header.tag, TAG("unit"))
  ELSE IF ~is_null(a.header.length) THEN Err("InvalidLength")
  ELSE Ok(Unit)

\* impl TryFrom<Any> for ()
unit_try_from(a) ==
  IF assert_eq(a.header.tag, TAG("unit")).kind # "Ok"
    THEN assert_eq(a.header.tag, TAG("unit"))
  ELSE IF assert_primitive(a.header).kind # "Ok" THEN assert_primitive(a.header)
  ELSE IF ~is_null(a.header.length) THEN Err("InvalidLength")
  ELSE Ok(Unit)

\* impl CheckDerConstraints for ()
unit_check_constraints(a) == Ok(Unit)

\* impl ToDer for (): to_der_len
unit_to_der_len(v) == 2

\* impl ToDer for (): write_der_header
unit_write_der_header(v) == [bytes |-> <<5, 0>>, n |-> 2]

\* impl ToDer for (): write_der_content
unit_write_der_content(v) == [bytes |-> <<>>, n |-> 0]

(***************************************************************************)
(* OctetString, &[u8]                                                      *)
(***************************************************************************)
\* OctetString::new: borrows the slice
OctetString_new(s) == [t |-> "OctetString", data |-> s, owned |-> FALSE]

\* impl AsRef<[u8]> for OctetString
OctetString_as_ref(v) == v.data

\* impl TryFrom<Any> for OctetString
OctetString_try_from(a) ==
  IF assert_eq(a.header.tag, TAG("OctetString")).kind # "Ok"
    THEN assert_eq(a.header.tag, TAG("OctetString"))
  ELSE Ok(into_cow(a))

\* mutant: the primitive check is left out
OctetString_check_constraints_mut(a) == Ok(Unit)

\* impl CheckDerConstraints for OctetString
OctetString_check_constraints(a) ==
  IF assert_primitive(a.header).kind # "Ok" THEN assert_primitive(a.header)
  ELSE Ok(Unit)

\* mutant: the length is taken to fit one octet
OctetString_to_der_len_mut(v) == 2 + Len(v.data)

\* impl ToDer for OctetString: to_der_len
OctetString_to_der_len(v) ==
  LET header == Header_new(0, 0, TAG("OctetString"), Definite(Len(v.data)))
  IN Header_to_der_len(header) + Len(v.data)

\* impl ToDer for OctetString: to_der
OctetString_to_der(v) ==
  LET header == Header_new(0, 0, TAG("OctetString"), Definite(Len(v.data)))
      hsz == Len(Header_to_der(header))
  IN [bytes |-> Header_to_der(header) \o v.data, n |-> hsz + Len(v.data)]

\* mutant: owned content is handed out as well
slice_try_from_mut(a) ==
  IF assert_eq(a.header.tag, TAG("slice")).kind # "Ok"
    THEN assert_eq(a.header.tag, TAG("slice"))
  ELSE IF OctetString_try_from(a).kind # "Ok" THEN OctetString_try_from(a)
  ELSE Ok([t |-> "slice", data |-> OctetString_try_from(a).val.data])

\* impl TryFrom<Any> for &[u8]
slice_try_from(a) ==
  IF assert_eq(a.header.tag, TAG("slice")).kind # "Ok"
    THEN assert_eq(a.header.tag, TAG("slice"))
  ELSE IF OctetString_try_from(a).kind # "Ok" THEN OctetString_try_from(a)
  ELSE IF OctetString_try_from(a).val.owned THEN Err("LifetimeError")
  ELSE Ok([t |-> "slice", data |-> OctetString_try_from(a).val.data])

\* impl CheckDerConstraints for &[u8]
slice_check_constraints(a) ==
  IF assert_primitive(a.header).kind # "Ok" THEN assert_primitive(a.header)
  ELSE Ok(Unit)

\* impl ToDer for &[u8]: to_der_len
slice_to_der_len(v) ==
  LET header == Header_new(0, 0, TAG("slice"), Definite(Len(v.data)))
  IN Header_to_der_len(header) + Len(v.data)

\* impl ToDer for &[u8]: to_der
slice_to_der(v) ==
  LET header == Header_new(0, 0, TAG("slice"), Definite(Len(v.data)))
      hsz == Len(Header_to_der(header))
  IN [bytes |-> Header_to_der(header) \o v.data, n |-> hsz + Len(v.data)]

(***************************************************************************)
(* UtcTime                                                                 *)
(***************************************************************************)
TzZ == [kind |-> "Z", sign |-> 0, hh |-> 0, mm |-> 0]
TzUndefined == [kind |-> "Undefined", sign |-> 0, hh |-> 0, mm |-> 0]
TzOffset(sign, hh, mm) == [kind |-> "Offset", sign |-> sign, hh |-> hh, mm |-> mm]

\* ASN1DateTime::new (the millisecond argument is always None here)
ASN1DateTime_new(year, month, day, hour, minute, second, tz) ==
  [year |-> year, month |-> month, day |-> day, hour |-> hour,
   minute |-> minute, second |-> second, millisecond |-> "None", tz |-> tz]

\* UtcTime::new
UtcTime_new(datetime) == [t |-> "UtcTime", dt |-> datetime]

IsDigit(b) == ChZero <= b /\ b <= ChNine

\* datetime::decode_decimal: two ASCII digits as a number, else a value error
decode_decimal(hi, lo) ==
  IF IsDigit(hi) /\ IsDigit(lo)
    THEN [ok |-> TRUE, v |-> (hi - ChZero) * 10 + (lo - ChZero)]
    ELSE [ok |-> FALSE, v |-> 0]

\* UtcTime::from_bytes, the zone match on the last remainder
UtcTime_zone(r) ==
  IF r = <<ChZ>> THEN [ok |-> TRUE, tz |-> TzZ]
  ELSE IF Len(r) = 5 /\ r[1] = ChPlus THEN
    IF ~decode_decimal(r[2], r[3]).ok \/ ~decode_decimal(r[4], r[5]).ok
      THEN [ok |-> FALSE, tz |-> TzUndefined]
      ELSE [ok |-> TRUE,
            tz |-> TzOffset(1, decode_decimal(r[2], r[3]).v, decode_decimal(r[4], r[5]).v)]
  ELSE IF Len(r) = 5 /\ r[1] = ChMinus THEN
    IF ~decode_decimal(r[2], r[3]).ok \/ ~decode_decimal(r[4], r[5]).ok
      THEN [ok |-> FALSE, tz |-> TzUndefined]
      ELSE [ok |-> TRUE,
            tz |-> TzOffset(-1, decode_decimal(r[2], r[3]).v, decode_decimal(r[4], r[5]).v)]
  ELSE [ok |-> FALSE, tz |-> TzUndefined]

\* UtcTime::from_bytes, the seconds match: any remainder of two or more bytes
\* is taken to start with the seconds
UtcTime_seconds(r) ==
  IF Len(r) >= 2
    THEN [sec |-> decode_decimal(r[1], r[2]), rem |-> SubSeq(r, 3, Len(r))]
    ELSE [sec |-> [ok |-> TRUE, v |-> 0], rem |-> r]

\* mutant: the seconds are not bounded
UtcTime_components_invalid_mut(month, day, hour, minute, second) ==
  month > 12 \/ day > 31 \/ hour > 23 \/ minute > 59

\* UtcTime::from_bytes, the bounds of the time components
UtcTime_components_invalid(month, day, hour, minute, second) ==
  month > 12 \/ day > 31 \/ hour > 23 \/ minute > 59 \/ second > 59

\* UtcTime::from_bytes
UtcTime_from_bytes(bytes) ==
  IF Len(bytes) < 10 THEN Err("InvalidValue")
  ELSE
    LET year == decode_decimal(bytes[1], bytes[2])
        month == decode_decimal(bytes[3], bytes[4])
        day == decode_decimal(bytes[5], bytes[6])
        hour == decode_decimal(bytes[7], bytes[8])
        minute == decode_decimal(bytes[9], bytes[10])
        r == SubSeq(bytes, 11, Len(bytes))
        s == UtcTime_seconds(r)
        tz == UtcTime_zone(s.rem)
    IN IF ~year.ok \/ ~month.ok \/ ~day.ok \/ ~hour.ok \/ ~minute.ok
         THEN Err("InvalidValue")
       ELSE IF r = <<>> THEN Err("InvalidValue")
       ELSE IF ~s.sec.ok THEN Err("InvalidValue")
       ELSE IF UtcTime_components_invalid(month.v, day.v, hour.v, minute.v, s.sec.v)
         THEN Err("InvalidValue")
       ELSE IF s.rem = <<>> THEN Err("InvalidValue")
       ELSE IF ~tz.ok THEN Err("InvalidValue")
       ELSE Ok(UtcTime_new(ASN1DateTime_new(
              year.v, month.v, day.v, hour.v, minute.v, s.sec.v, tz.tz)))

\* impl TryFrom<Any> for UtcTime: is_visible
is_visible(b) == 32 <= b /\ b <= 127

\* impl TryFrom<Any> for UtcTime
UtcTime_try_from(a) ==
  IF assert_eq(a.header.tag, TAG("UtcTime")).kind # "Ok"
    THEN assert_eq(a.header.tag, TAG("UtcTime"))
  ELSE IF ~(\A i \in 1..Len(a.data) : is_visible(a.data[i]))
    THEN Err("StringInvalidCharset")
  ELSE UtcTime_from_bytes(a.data)

\* impl CheckDerConstraints for UtcTime
UtcTime_check_constraints(a) == Ok(Unit)

RECURSIVE Decimal(_)
\* the decimal digits of n as ASCII
Decimal(n) ==
  IF n < 10 THEN <<ChZero + n>> ELSE Decimal(n \div 10) \o <<ChZero + (n % 10)>>

\* mutant: the format "{}", no padding
Fmt02_mut(n) == Decimal(n)

\* the format "{:02}": zero-padded to a minimum width of two, never truncated
Fmt02(n) == IF n < 10 THEN <<ChZero>> \o Decimal(n) ELSE Decimal(n)

\* impl ToDer for UtcTime: to_der_len
UtcTime_to_der_len(v) == 15

\* impl ToDer for UtcTime: write_der_header
UtcTime_write_der_header(v) ==
  LET buf == <<TAG("UtcTime"), 13>> IN [bytes |-> buf, n |-> Len(buf)]

\* impl ToDer for UtcTime: write_der_content
UtcTime_write_der_content(v) ==
  [bytes |-> Fmt02(v.dt.year) \o Fmt02(v.dt.month) \o Fmt02(v.dt.day)
               \o Fmt02(v.dt.hour) \o Fmt02(v.dt.minute) \o Fmt02(v.dt.second)
               \o <<ChZ>>,
   n |-> 13]

(***************************************************************************)
(* The protocols, by target type                                           *)
(***************************************************************************)
\* ToDer::to_der, by default write_der_header followed by write_der_content
Compose(h, c) == [bytes |-> h.bytes \o c.bytes, n |-> h.n + c.n]

to_der(T, v) ==
  CASE T = "Boolean" -> Boolean_to_der(v)
    [] T = "bool" -> bool_to_der(v)
    [] T = "Null" -> Compose(Null_write_der_header(v), Null_write_der_content(v))
    [] T = "unit" -> Compose(unit_write_der_header(v), unit_write_der_content(v))
    [] T = "OctetString" -> OctetString_to_der(v)
    [] T = "slice" -> slice_to_der(v)
    [] T = "UtcTime" ->
         Compose(UtcTime_write_der_header(v), UtcTime_write_der_content(v))

to_der_len(T, v) ==
  CASE T = "Boolean" -> Boolean_to_der_len(v)
    [] T = "bool" -> bool_to_der_len(v)
    [] T = "Null" -> Null_to_der_len(v)
    [] T = "unit" -> unit_to_der_len(v)
    [] T = "OctetString" -> OctetString_to_der_len(v)
    [] T = "slice" -> slice_to_der_len(v)
    [] T = "UtcTime" -> UtcTime_to_der_len(v)

try_from(T, a) ==
  CASE T = "Boolean" -> Boolean_try_from(a)
    [] T = "bool" -> bool_try_from(a)
    [] T = "Null" -> Null_try_from(a)
    [] T = "unit" -> unit_try_from(a)
    [] T = "OctetString" -> OctetString_try_from(a)
    [] T = "slice" -> slice_try_from(a)
    [] T = "UtcTime" -> UtcTime_try_from(a)

check_constraints(T, a) ==
  CASE T = "Boolean" -> Boolean_check_constraints(a)
    [] T = "bool" -> bool_check_constraints(a)
    [] T = "Null" -> Null_check_constraints(a)
    [] T = "unit" -> unit_check_constraints(a)
    [] T = "OctetString" -> OctetString_check_constraints(a)
    [] T = "slice" -> slice_check_constraints(a)
    [] T = "UtcTime" -> UtcTime_check_constraints(a)

(***************************************************************************)
(* Inputs                                                                  *)
(***************************************************************************)
Fill(n) == [i \in 1..n |-> 0]

ShortOctets == UNION {[1..n -> ByteSamples] : n \in 0..MaxOctets}

Octets == ShortOctets \cup {Fill(n) : n \in LongLens}

\* two ASCII digits of n < 100
DD(n) == <<ChZero + (n \div 10), ChZero + (n % 10)>>

YearFields == {DD(0), DD(99)}
MonthFields == {DD(1), DD(12), DD(13)}
DayFields == {DD(31), DD(32)}
HourFields == {DD(23), DD(24)}
MinuteFields == {DD(59), DD(60), <<53, 120>>}
SecondFields == {<<>>, DD(0), DD(59), DD(60), <<53>>}
ZoneFields ==
  {<<>>, <<ChZ>>, <<ChPlus>> \o DD(1) \o DD(0), <<ChMinus>> \o DD(9) \o DD(30),
   <<ChPlus>> \o DD(99) \o DD(99), <<ChPlus>> \o DD(1), <<ChZ, ChZ>>, <<88>>,
   <<ChPlus, 48, 97, 48, 48>>}

\* byte strings around the UtcTime grammar, well-formed and not
UtcInputs ==
  {y \o mo \o d \o h \o mi \o s \o z :
     y \in YearFields, mo \in MonthFields, d \in DayFields, h \in HourFields,
     mi \in MinuteFields, s \in SecondFields, z \in ZoneFields}
  \cup {SubSeq(DD(99) \o DD(12) \o DD(31) \o DD(23) \o DD(59), 1, k) : k \in 0..9}

TzSamples == {TzZ, TzUndefined, TzOffset(1, 1, 0), TzOffset(-1, 9, 30)}

DateTimes ==
  {ASN1DateTime_new(y, mo, d, h, mi, s, tz) :
     y \in YearSamples, mo \in {1, 12}, d \in {1, 31}, h \in {0, 23},
     mi \in {0, 59}, s \in {0, 59}, tz \in TzSamples}

\* the values a caller can build and encode
Values(T) ==
  CASE T = "Boolean" -> {Boolean_new(c) : c \in 0..255}
    [] T = "bool" -> {[t |-> "bool", b |-> b] : b \in BOOLEAN}
    [] T = "Null" -> {Null_new}
    [] T = "unit" -> {Unit}
    [] T = "OctetString" -> {OctetString_new(s) : s \in Octets}
    [] T = "slice" -> {[t |-> "slice", data |-> s] : s \in Octets}
    [] T = "UtcTime" -> {UtcTime_new(dt) : dt \in DateTimes}

\* an Any holds exactly header.length bytes when the length is definite
Lengths(data) == {Definite(Len(data)), Indefinite}

Anys(T) ==
  {Any_new(Header_new(class, constructed, tag, length), data, owned) :
     class \in {0, 2}, constructed \in {0, 1}, tag \in {TAG(T), TagInteger},
     length \in {Definite(0), Definite(1), Definite(2), Definite(3), Indefinite},
     data \in ShortOctets, owned \in BOOLEAN}

ShapedAnys(T) ==
  {a \in Anys(T) : a.header.length \in Lengths(a.data)}
  \cup (IF T \in {"Boolean", "bool"}
          THEN {Any_new(Header_new(0, 0, TAG(T), Definite(1)), <<c>>, FALSE) : c \in 0..255}
          ELSE {})
  \cup (IF T = "UtcTime"
          THEN {Any_new(Header_new(0, 0, TAG(T), Definite(Len(s))), s, FALSE) :
                  s \in UtcInputs \cup {<<ChNine, 7>>}}
          ELSE {})

(***************************************************************************)
(* State machine: a call sequence over one value or one input              *)
(***************************************************************************)
Blank ==
  /\ wire = <<>>
  /\ sz = 0
  /\ derlen = 0
  /\ rem = <<>>
  /\ res = None
  /\ chk = None

\* a value to encode
InitValue ==
  /\ pc = "value"
  /\ typ \in Types
  /\ val \in Values(typ)
  /\ origin = "new"
  /\ any = NoAny
  /\ raw = <<>>
  /\ Blank

\* an Any handed over by the reader
InitAny ==
  /\ pc = "any"
  /\ typ \in Types
  /\ val = NoVal
  /\ origin = "none"
  /\ any \in ShapedAnys(typ)
  /\ raw = <<>>
  /\ Blank

\* content bytes for UtcTime::from_bytes
InitRaw ==
  /\ pc = "raw"
  /\ typ = "UtcTime"
  /\ val = NoVal
  /\ origin = "none"
  /\ any = NoAny
  /\ raw \in UtcInputs
  /\ Blank

Init == InitValue \/ InitAny \/ InitRaw

\* to_der_len() and to_der(writer) on a writer that accepts every byte
ToDer ==
  /\ pc = "value"
  /\ wire' = to_der(typ, val).bytes
  /\ sz' = to_der(typ, val).n
  /\ derlen' = to_der_len(typ, val)
  /\ pc' = "written"
  /\ UNCHANGED <<typ, val, origin, any, rem, raw, res, chk>>

\* the reader parses the written bytes into an Any
ParseAny ==
  /\ pc = "written"
  /\ LET p == Any_from_der(wire)
     IN /\ pc' = IF p.kind = "Ok" THEN "any" ELSE "unparsed"
        /\ any' = p.any
        /\ rem' = p.rem
  /\ UNCHANGED <<typ, val, origin, wire, sz, derlen, raw, res, chk>>

\* T::try_from(any)
TryFrom ==
  /\ pc = "any"
  /\ res = None
  /\ res' = try_from(typ, any)
  /\ UNCHANGED <<pc, typ, val, origin, wire, sz, derlen, any, rem, raw, chk>>

\* T::check_constraints(&any), with or without a try_from
CheckConstraints ==
  /\ pc = "any"
  /\ chk = None
  /\ chk' = check_constraints(typ, any)
  /\ UNCHANGED <<pc, typ, val, origin, wire, sz, derlen, any, rem, raw, res>>

\* UtcTime::from_bytes(raw)
FromBytes ==
  /\ pc = "raw"
  /\ res = None
  /\ res' = UtcTime_from_bytes(raw)
  /\ UNCHANGED <<pc, typ, val, origin, wire, sz, derlen, any, rem, raw, chk>>

\* the caller encodes a value it decoded
Reencode ==
  /\ pc \in {"any", "raw"}
  /\ res.kind = "Ok"
  /\ pc' = "value"
  /\ val' = res.val
  /\ origin' = "decoded"
  /\ any' = NoAny
  /\ raw' = <<>>
  /\ wire' = <<>>
  /\ sz' = 0
  /\ derlen' = 0
  /\ rem' = <<>>
  /\ res' = None
  /\ chk' = None
  /\ UNCHANGED typ

Next == ToDer \/ ParseAny \/ TryFrom \/ CheckConstraints \/ FromBytes \/ Reencode

Spec == Init /\ [][Next]_vars

(***************************************************************************)
(* The UtcTime grammar YYMMDD(hhmm|hhmmss)(Z|[+-]hhmm) of X.680 section 43, *)
(* stated on the byte string alone                                         *)
(***************************************************************************)
Digit(b) == b \in 48..57

Num2(s, i) == (s[i] - 48) * 10 + (s[i + 1] - 48)

AllDigits(s, lo, hi) == \A i \in lo..hi : Digit(s[i])

ZoneForm(z) == z = <<90>> \/ (Len(z) = 5 /\ z[1] \in {43, 45} /\ AllDigits(z, 2, 5))

ZoneOf(z) ==
  IF z = <<90>> THEN TzZ
  ELSE TzOffset(IF z[1] = 43 THEN 1 ELSE -1, Num2(z, 2), Num2(z, 4))

FieldsInBounds(s) ==
  Num2(s, 3) <= 12 /\ Num2(s, 5) <= 31 /\ Num2(s, 7) <= 23 /\ Num2(s, 9) <= 59

NoSecondsForm(s) ==
  /\ Len(s) >= 11
  /\ AllDigits(s, 1, 10)
  /\ FieldsInBounds(s)
  /\ ZoneForm(SubSeq(s, 11, Len(s)))

WithSecondsForm(s) ==
  /\ Len(s) >= 13
  /\ AllDigits(s, 1, 12)
  /\ FieldsInBounds(s)
  /\ Num2(s, 11) <= 59
  /\ ZoneForm(SubSeq(s, 13, Len(s)))

UtcGrammar(s) == NoSecondsForm(s) \/ WithSecondsForm(s)

GrammarValue(s) ==
  LET withSec == WithSecondsForm(s)
  IN [t |-> "UtcTime",
      dt |-> [year |-> Num2(s, 1), month |-> Num2(s, 3), day |-> Num2(s, 5),
              hour |-> Num2(s, 7), minute |-> Num2(s, 9),
              second |-> IF withSec THEN Num2(s, 11) ELSE 0,
              millisecond |-> "None",
              tz |-> ZoneOf(SubSeq(s, IF withSec THEN 13 ELSE 11, Len(s)))]]

\* the content bytes a UtcTime decode was run on, and whether one was run
UtcDecoded ==
  /\ typ = "UtcTime"
  /\ res # None
  /\ pc = "raw" \/ (pc = "any" /\ any.header.tag = TagUtcTime)

UtcInput == IF pc = "raw" THEN raw ELSE any.data

\* month <= 12, day <= 31, hour <= 23, minute <= 59, second <= 59
ValidDateTime(dt) ==
  dt.month <= 12 /\ dt.day <= 31 /\ dt.hour <= 23 /\ dt.minute <= 59 /\ dt.second <= 59

(***************************************************************************)
(* Claims                                                                  *)
(***************************************************************************)

\* C1: UtcTime decoding accepts every content string YYMMDDhhmm followed
\* directly by a zone 'Z' or '+hhmm'/'-hhmm' (seconds omitted, fields digits
\* and in bounds); the result has second = 0 and the zone of the string.
C1_AcceptsNoSeconds ==
  (UtcDecoded /\ NoSecondsForm(UtcInput)) =>
    /\ res.kind = "Ok"
    /\ res.val.dt.second = 0
    /\ res.val.dt.tz = ZoneOf(SubSeq(UtcInput, 11, Len(UtcInput)))
    /\ res.val = GrammarValue(UtcInput)

\* C2: encoding a valid UtcTime (any year, any zone) emits exactly 15 bytes:
\* tag 23, length octet 13, 13 content bytes ending in 'Z'; the returned
\* count 2 + 13 and to_der_len() = 15 equal the number of bytes written.
C2_EncodesFifteenBytes ==
  (typ = "UtcTime" /\ pc = "written" /\ ValidDateTime(val.dt)) =>
    /\ Len(wire) = 15
    /\ wire[1] = 23
    /\ wire[2] = 13
    /\ Len(wire) - 2 = 13
    /\ wire[Len(wire)] = 90
    /\ sz = Len(wire)
    /\ derlen = Len(wire)

\* the values UtcTime decoding can return: two-digit year, fields in bounds,
\* zone Z or Offset(+1 or -1, hh, mm) with hh, mm two-digit numbers
Decodable(dt) ==
  /\ dt.year <= 99
  /\ ValidDateTime(dt)
  /\ \/ dt.tz = TzZ
     \/ dt.tz.kind = "Offset" /\ dt.tz.sign \in {1, -1} /\ dt.tz.hh <= 99 /\ dt.tz.mm <= 99

\* equality of values; an OctetString is compared by the bytes as_ref() gives
Same(a, b) ==
  IF a.t = "OctetString" /\ b.t = "OctetString"
    THEN OctetString_as_ref(a) = OctetString_as_ref(b)
    ELSE a = b

\* an encoded value went through ParseAny (or failed to) and try_from
RoundTripHolds ==
  /\ pc # "unparsed"
  /\ (pc = "any" /\ res # None) => (res.kind = "Ok" /\ Same(res.val, val) /\ rem = <<>>)

\* C3 as stated: to_der, then parsing into an Any, then TryFrom<Any> gives
\* back an equal value, for Boolean (value 0x00 or 0xFF), bool, Null,
\* OctetString and every UtcTime a decode can return, zone Offset included.
C3_RoundTripAnyZone ==
  (val # NoVal /\ pc # "value" /\ pc # "written") =>
    CASE typ = "Boolean" -> (val.value \in {0, 255} => RoundTripHolds)
      [] typ \in {"bool", "Null", "OctetString"} -> RoundTripHolds
      [] typ = "UtcTime" -> (origin = "decoded" => RoundTripHolds)
      [] OTHER -> TRUE

\* C3 amended: the same round trip, for UtcTime only over the decodable
\* values whose zone is Z (the encoder always writes Z).
C3_RoundTrip ==
  (val # NoVal /\ pc # "value" /\ pc # "written") =>
    CASE typ = "Boolean" -> (val.value \in {0, 255} => RoundTripHolds)
      [] typ \in {"bool", "Null", "OctetString"} -> RoundTripHolds
      [] typ = "UtcTime" -> ((Decodable(val.dt) /\ val.dt.tz = TzZ) => RoundTripHolds)
      [] OTHER -> TRUE

\* a UtcTime decoded without seconds was encoded and decoded back equal
C3_Witness ==
  /\ typ = "UtcTime"
  /\ pc = "any"
  /\ origin = "decoded"
  /\ val.dt.tz = TzZ
  /\ val.dt.year = 99
  /\ res.kind = "Ok"
  /\ res.val = val
  /\ Len(wire) = 15

\* the minimal number of big-endian bytes of n
MinBytes(n) == CHOOSE k \in 1..3 : n < 256 ^ k /\ (k = 1 \/ n >= 256 ^ (k - 1))

\* C4: to_der_len() equals the number of bytes to_der writes: for an
\* OctetString / byte slice of n content bytes 1 tag octet + the DER length
\* of n (one octet iff n <= 127, else 1 + the minimal number of big-endian
\* bytes, no leading zero) + n; 3 for Boolean/bool; 2 for Null/().
C4_LenMatchesWritten ==
  (val # NoVal /\ pc # "value") =>
    CASE typ \in {"OctetString", "slice"} ->
           LET n == Len(val.data)
           IN /\ derlen = Len(wire)
              /\ sz = Len(wire)
              /\ (n <= 127) => (Len(wire) = 2 + n /\ wire[2] = n)
              /\ (n > 127) => /\ Len(wire) = 2 + MinBytes(n) + n
                              /\ wire[2] = 128 + MinBytes(n)
                              /\ wire[3] # 0
              /\ SubSeq(wire, Len(wire) - n + 1, Len(wire)) = val.data
      [] typ \in {"Boolean", "bool"} -> derlen = 3 /\ sz = 3 /\ Len(wire) = 3
      [] typ \in {"Null", "unit"} -> derlen = 2 /\ sz = 2 /\ Len(wire) = 2
      [] OTHER -> TRUE

\* an OctetString of 128 bytes was written with a long-form length
C4_Witness ==
  /\ typ = "OctetString"
  /\ pc = "written"
  /\ Len(val.data) = 128
  /\ wire[2] = 129
  /\ derlen = 131

\* C5: with the Boolean tag and exactly one content byte c, TryFrom<Any> for
\* Boolean and bool succeeds for every c and bool() is true iff c # 0;
\* check_constraints is Ok iff c is 0x00 or 0xFF, else DerConstraintFailed;
\* any length other than Definite(1) fails the decode with InvalidLength.
C5_BooleanTwoPhase ==
  (typ \in {"Boolean", "bool"} /\ pc = "any" /\ any.header.tag = TagBoolean) =>
    /\ (res # None /\ any.header.length = Definite(1)) =>
         /\ res.kind = "Ok"
         /\ typ = "Boolean" => (res.val.value = any.data[1]
                                  /\ Boolean_bool(res.val) = (any.data[1] # 0))
         /\ typ = "bool" => res.val.b = (any.data[1] # 0)
    /\ (res # None /\ any.header.length # Definite(1)) => res = Err("InvalidLength")
    /\ (chk # None /\ Len(any.data) = 1) =>
         /\ (chk.kind = "Ok") = (any.data[1] \in {0, 255})
         /\ chk.kind # "Ok" => chk = Err("DerConstraintFailed")

\* content 0x01 decodes to true and fails the DER check
C5_Witness ==
  /\ typ = "bool"
  /\ pc = "any"
  /\ any.header.tag = TagBoolean
  /\ any.data = <<1>>
  /\ res.kind = "Ok"
  /\ res.val.b = TRUE
  /\ chk = Err("DerConstraintFailed")

C7_OctetStringTwoPhase ==
  (typ \in {"OctetString", "slice"} /\ pc = "any" /\ any.header.tag = TagOctetString) =>
    /\ (res # None /\ typ = "OctetString") =>
         /\ res.kind = "Ok"
         /\ OctetString_as_ref(res.val) = any.data
         /\ res.val.owned = any.owned
    /\ chk # None => (chk.kind # "Ok") = (any.header.constructed = 1)
    /\ chk # None => chk.kind \in {"Ok", "Err"}

\* a constructed OCTET STRING with content decoded and failed the DER check
C7_Witness ==
  /\ typ = "OctetString"
  /\ pc = "any"
  /\ any.header.tag = TagOctetString
  /\ any.header.constructed = 1
  /\ Len(any.data) = 2
  /\ res.kind = "Ok"
  /\ chk.kind = "Err"

\* C8: TryFrom<Any> for &[u8]: with the OctetString tag the result is the
\* borrowed content, unchanged, if the Any's data is borrowed and
\* LifetimeError if it is owned; with any other tag it is the tag mismatch
\* error, borrowed or owned.
C8_SliceBorrowOnly ==
  (typ = "slice" /\ pc = "any" /\ res # None) =>
    /\ (any.header.tag = TagOctetString /\ ~any.owned) =>
         (res.kind = "Ok" /\ res.val = [t |-> "slice", data |-> any.data])
    /\ (any.header.tag = TagOctetString /\ any.owned) => res = Err("LifetimeError")
    /\ any.header.tag # TagOctetString =>
         res = assert_eq(any.header.tag, TagOctetString) /\ res.kind = "Err"

\* owned content with the OctetString tag was refused
C8_Witness ==
  /\ typ = "slice"
  /\ pc = "any"
  /\ any.header.tag = TagOctetString
  /\ any.owned
  /\ Len(any.data) = 2
  /\ res = Err("LifetimeError")

\* C9: every Boolean / bool decode-side operation returns Ok or Err on every
\* Any holding exactly header.length bytes, empty content included, with or
\* without a prior TryFrom.
C9_BooleanNeverAborts ==
  (typ \in {"Boolean", "bool"} /\ pc = "any") =>
    /\ res.kind # "Panic"
    /\ chk.kind # "Panic"

\* C10: from_bytes returns Ok only on a string that matches the grammar
\* exactly, fields in bounds, and then with the value the string spells
\* (year <= 99, no fraction, zone Z or Offset(+-1, hh, mm)); every other
\* input returns an InvalidValue error and no value.
C10_DecodeSound ==
  (pc = "raw" /\ res # None) =>
    /\ res.kind = "Ok" =>
         /\ UtcGrammar(raw)
         /\ res.val = GrammarValue(raw)
         /\ Decodable(res.val.dt)
         /\ res.val.dt.millisecond = "None"
    /\ ~UtcGrammar(raw) => res = Err("InvalidValue")
    /\ res.kind # "Ok" => res = Err("InvalidValue")
    /\ Len(raw) < 10 => res = Err("InvalidValue")

\* a string with seconds and an offset was decoded
C10_Witness ==
  /\ pc = "raw"
  /\ raw = DD(99) \o DD(12) \o DD(31) \o DD(23) \o DD(59) \o DD(59)
             \o <<45>> \o DD(9) \o DD(30)
  /\ res.kind = "Ok"
  /\ res.val.dt.tz = TzOffset(-1, 9, 30)

\* "9913010000Z" style input: month 13 was refused
C10_WitnessRefused ==
  /\ pc = "raw"
  /\ raw = DD(99) \o DD(13) \o DD(31) \o DD(23) \o DD(59) \o <<90>>
  /\ res = Err("InvalidValue")

====
